---------------------------- MODULE Spec2Model ----------------------------
(***************************************************************************)
(* A model of src/common/Common.ts: MapUtils.filter, the CommandLineUtils  *)
(* flag helpers and the Version value type (from, same, sameOrNewer,       *)
(* compare).                                                               *)
(*                                                                         *)
(* Every operation of the file is a pure static or instance method, so     *)
(* each class gets its own specification: Init draws the arguments from    *)
(* bounded sets and one action per method applies it.                      *)
(*                                                                         *)
(* A JavaScript string is a sequence of one-character strings.             *)
(***************************************************************************)
EXTENDS Integers, Sequences, FiniteSets

VARIABLES
    pc,            \* "ready" before the call, "done" after it
    op,            \* the method that was called ("" before the call)
    input,         \* Version.from: the input string
    outcome,       \* Version.from: what the call did (returned / threw)
    a,             \* Version methods: the receiver (this)
    b,             \* Version methods: the argument
    platformFlag,  \* CommandLineUtils.platformFlagIs*: the argument
    flag,          \* CommandLineUtils.resolveFlag: the flag (any type)
    defaultValue,  \* CommandLineUtils.resolveFlag: the default string
    map,           \* MapUtils.filter: the map argument (or null)
    predicate,     \* MapUtils.filter: the predicate argument
    ret            \* the value a method returned, as <<value>> (<<>> before)

vars == <<pc, op, input, outcome, a, b, platformFlag, flag, defaultValue,
          map, predicate, ret>>

\* The value of a variable that a specification does not use.
Unused == <<>>

-----------------------------------------------------------------------------
(* Bounds *)

\* Longest input string handed to Version.from.
MaxLen == 6
\* Largest major field of a constructed Version.
MaxMajor == 2
\* Largest minor and patch field of a constructed Version.
MaxMinorPatch == 10
\* Number of distinct keys a Map may hold.
MaxKeys == 3

-----------------------------------------------------------------------------
(* JavaScript strings *)

Digits == {"0", "1", "2", "3", "4", "5", "6", "7", "8", "9"}
\* The characters String.prototype.trim and Number.parseInt strip: the
\* ECMAScript WhiteSpace and LineTerminator code points.  Space, TAB, LF,
\* FF, CR, VT, U+00A0, U+1680 and U+FEFF stand for themselves; a code point
\* that a string of this module cannot hold is written by its escape.
WhiteSpace ==
    {" ", "\t", "\n", "\f", "\r", "", " ", " ", "﻿",
     "\\u2000", "\\u2001", "\\u2002", "\\u2003", "\\u2004", "\\u2005",
     "\\u2006", "\\u2007", "\\u2008", "\\u2009", "\\u200A", "\\u2028",
     "\\u2029", "\\u202F", "\\u205F", "\\u3000"}

\* The characters Version.from is tried on: two digits, both separators,
\* two kinds of white space and a character outside the accepted range.
Chars == {"0", "1", ".", "-", " ", "\t", "a"}

Strings(n) == UNION {[1..k -> Chars] : k \in 0..n}

Min(S) == CHOOSE x \in S : \A y \in S : x <= y
Max(S) == CHOOSE x \in S : \A y \in S : x >= y

\* String.prototype.trim: strips white space from both ends.
TrimStart(s) ==
    LET keep == {i \in 1..Len(s) : s[i] \notin WhiteSpace}
    IN  IF keep = {} THEN <<>> ELSE SubSeq(s, Min(keep), Len(s))

TrimEnd(s) ==
    LET keep == {i \in 1..Len(s) : s[i] \notin WhiteSpace}
    IN  IF keep = {} THEN <<>> ELSE SubSeq(s, 1, Max(keep))

Trim(s) == TrimEnd(TrimStart(s))

\* String.prototype.toLowerCase on one character: the letters A to Z; the
\* other characters of the model's strings have no lower-case form.
UpperCaseLetters ==
    <<"A", "B", "C", "D", "E", "F", "G", "H", "I", "J", "K", "L", "M",
      "N", "O", "P", "Q", "R", "S", "T", "U", "V", "W", "X", "Y", "Z">>
LowerCaseLetters ==
    <<"a", "b", "c", "d", "e", "f", "g", "h", "i", "j", "k", "l", "m",
      "n", "o", "p", "q", "r", "s", "t", "u", "v", "w", "x", "y", "z">>

LowerCaseChar(c) ==
    LET at == {i \in 1..Len(UpperCaseLetters) : UpperCaseLetters[i] = c}
    IN  IF at = {} THEN c ELSE LowerCaseLetters[Min(at)]

ToLowerCase(s) == [i \in 1..Len(s) |-> LowerCaseChar(s[i])]

\* The character class of acceptedRange, /[0-9\-\.]+/g.
AcceptedRange == Digits \cup {"-", "."}

\* original.replace(acceptedRange, ''): every run of accepted characters is
\* removed, which leaves the characters outside the class, in order.
RemoveAccepted(s) == SelectSeq(s, LAMBDA c : c \notin AcceptedRange)

\* original.replace(/-/gi, '.').
HyphensKept(s) == s
HyphensToDots(s) == [i \in 1..Len(s) |-> IF s[i] = "-" THEN "." ELSE s[i]]

\* String.prototype.split(sep) for a one-character separator: the pieces
\* between the separators, empty pieces included; "" gives [""].
RECURSIVE Split(_, _)
Split(s, sep) ==
    LET at == {i \in 1..Len(s) : s[i] = sep}
    IN  IF at = {} THEN <<s>>
        ELSE <<SubSeq(s, 1, Min(at) - 1)>>
                 \o Split(SubSeq(s, Min(at) + 1, Len(s)), sep)

-----------------------------------------------------------------------------
(* JavaScript numbers, as far as Number.parseInt needs them *)

\* A number is NaN or an integer.
NaN == [nan |-> TRUE, val |-> 0]
Num(n) == [nan |-> FALSE, val |-> n]
IsNaN(x) == x.nan

DigitValue(c) ==
    CASE c = "0" -> 0 [] c = "1" -> 1 [] c = "2" -> 2 [] c = "3" -> 3
      [] c = "4" -> 4 [] c = "5" -> 5 [] c = "6" -> 6 [] c = "7" -> 7
      [] c = "8" -> 8 [] c = "9" -> 9

\* The value of a string of digits in the given radix, left to right.
RECURSIVE DigitsValueUnscaled(_, _)
DigitsValueUnscaled(s, radix) ==
    IF s = <<>> THEN 0
    ELSE DigitsValueUnscaled(SubSeq(s, 1, Len(s) - 1), radix)
             + DigitValue(s[Len(s)])

RECURSIVE DigitsValue(_, _)
DigitsValue(s, radix) ==
    IF s = <<>> THEN 0
    ELSE DigitsValue(SubSeq(s, 1, Len(s) - 1), radix) * radix
             + DigitValue(s[Len(s)])

\* Number.parseInt(s, radix) for radix <= 10: leading white space is
\* skipped, one sign is read, then the longest run of digits of the radix;
\* no digit at all gives NaN, and what follows the digits is ignored.
ParseIntEmptyIsZero(s, radix) ==
    LET t      == TrimStart(s)
        signed == t # <<>> /\ t[1] \in {"-", "+"}
        sign   == IF signed /\ t[1] = "-" THEN -1 ELSE 1
        body   == IF signed THEN Tail(t) ELSE t
        stop   == {i \in 1..Len(body) :
                      body[i] \notin Digits \/ DigitValue(body[i]) >= radix}
        digits == IF stop = {} THEN body ELSE SubSeq(body, 1, Min(stop) - 1)
    IN  Num(sign * DigitsValue(digits, radix))

ParseInt(s, radix) ==
    LET t      == TrimStart(s)
        signed == t # <<>> /\ t[1] \in {"-", "+"}
        sign   == IF signed /\ t[1] = "-" THEN -1 ELSE 1
        body   == IF signed THEN Tail(t) ELSE t
        stop   == {i \in 1..Len(body) :
                      body[i] \notin Digits \/ DigitValue(body[i]) >= radix}
        digits == IF stop = {} THEN body ELSE SubSeq(body, 1, Min(stop) - 1)
    IN  IF digits = <<>> THEN NaN ELSE Num(sign * DigitsValue(digits, radix))

-----------------------------------------------------------------------------
(* class Version *)

\* constructor(major, minor, patch)
Version(major, minor, patch) ==
    [major |-> major, minor |-> minor, patch |-> patch]

\* What a call of Version.from did: it returned a Version or threw an Error.
Returned(v) == [threw |-> FALSE, error |-> <<>>, returned |-> <<v>>]
Threw(message) == [threw |-> TRUE, error |-> <<message>>, returned |-> <<>>]
NotCalled == [threw |-> FALSE, error |-> <<>>, returned |-> <<>>]

\* The template literal `Invalid version string: ${input}`.
InvalidVersionStringTrimmed(in) == <<"Invalid version string: ">> \o Trim(in)
InvalidVersionString(in) == <<"Invalid version string: ">> \o in

\* The radix Version.from hands to Number.parseInt.
Radix == 10

\* Version.from(input)
From(in) ==
    LET original     == ToLowerCase(Trim(in))
        invalidChars == RemoveAccepted(original)
    IN  IF Len(invalidChars) > 0
        THEN Threw(InvalidVersionString(in))
        ELSE
          LET parts == Split(HyphensToDots(original), ".")
              major == IF Len(parts) >= 1 THEN ParseInt(parts[1], Radix)
                                          ELSE Num(0)
              minor == IF Len(parts) >= 2 THEN ParseInt(parts[2], Radix)
                                          ELSE Num(0)
              patch == IF Len(parts) >= 3 THEN ParseInt(parts[3], Radix)
                                          ELSE Num(0)
          IN  IF IsNaN(major) \/ IsNaN(minor) \/ IsNaN(patch)
              THEN Threw(InvalidVersionString(in))
              ELSE Returned(Version(major.val, minor.val, patch.val))

\* compare(another): -1, 0 or 1 by the scalars major*100 + minor*10 + patch.
CompareReversed(this, another) ==
    LET v1 == this.major * 100 + this.minor * 10 + this.patch
        v2 == another.major * 100 + another.minor * 10 + another.patch
    IN  IF v1 = v2 THEN 0
        ELSE IF v1 < v2 THEN 1
        ELSE -1

CompareMajorWeighsTen(this, another) ==
    LET v1 == this.major * 10 + this.minor * 10 + this.patch
        v2 == another.major * 10 + another.minor * 10 + another.patch
    IN  IF v1 = v2 THEN 0
        ELSE IF v1 < v2 THEN -1
        ELSE 1

Compare(this, another) ==
    LET v1 == this.major * 100 + this.minor * 10 + this.patch
        v2 == another.major * 100 + another.minor * 10 + another.patch
    IN  IF v1 = v2 THEN 0
        ELSE IF v1 < v2 THEN -1
        ELSE 1

\* same(inputVersion)
Same(this, inputVersion) == Compare(this, inputVersion) = 0

\* sameOrNewer(inputVersion)
SameOrNewer(this, inputVersion) == Compare(this, inputVersion) > -1

-----------------------------------------------------------------------------
(* Specification SpecFrom: Version.from on every string up to MaxLen *)

InitFrom ==
    /\ pc = "ready"
    /\ op = ""
    /\ input \in Strings(MaxLen)
    /\ outcome = NotCalled
    /\ a = Unused /\ b = Unused
    /\ platformFlag = Unused /\ flag = Unused /\ defaultValue = Unused
    /\ map = Unused /\ predicate = Unused
    /\ ret = <<>>

CallFrom ==
    /\ pc = "ready"
    /\ pc' = "done"
    /\ op' = "from"
    /\ outcome' = From(input)
    /\ UNCHANGED <<input, a, b, platformFlag, flag, defaultValue, map,
                   predicate, ret>>

NextFrom == CallFrom

SpecFrom == InitFrom /\ [][NextFrom]_vars

-----------------------------------------------------------------------------
(* What the claims about Version.from speak of, stated on the input alone *)

\* The trimmed form of the input: from its first to its last character
\* that is not white space.
TrimmedForm ==
    LET solid == {i \in 1..Len(input) : input[i] \notin WhiteSpace}
    IN  IF solid = {} THEN <<>>
        ELSE [i \in 1..(Max(solid) - Min(solid) + 1) |->
                 input[Min(solid) + i - 1]]

Separators == {".", "-"}

OnlyVersionChars ==
    \A i \in 1..Len(TrimmedForm) : TrimmedForm[i] \in Digits \cup Separators

\* Where the separators of the trimmed form are.
SeparatorAt == {i \in 1..Len(TrimmedForm) : TrimmedForm[i] \in Separators}

SegmentCount == Cardinality(SeparatorAt) + 1

\* The position of the k-th separator; 0 stands before the first segment
\* and Len + 1 after the last one.
Boundary(k) ==
    IF k = 0 THEN 0
    ELSE IF k > Cardinality(SeparatorAt) THEN Len(TrimmedForm) + 1
    ELSE CHOOSE p \in SeparatorAt :
             Cardinality({q \in SeparatorAt : q < p}) = k - 1

\* The k-th segment (k in 1..SegmentCount).
Segment(k) ==
    [i \in 1..(Boundary(k) - Boundary(k - 1) - 1) |->
        TrimmedForm[Boundary(k - 1) + i]]

\* The segments that become major, minor and patch: the first three, as
\* many as exist.
Leading == 1..(IF SegmentCount < 3 THEN SegmentCount ELSE 3)

LeadingNonEmpty == \A k \in Leading : Segment(k) # <<>>

RECURSIVE Pow10(_)
Pow10(n) == IF n = 0 THEN 1 ELSE 10 * Pow10(n - 1)

\* The base-10 value of a segment of digits: digit i weighs 10^(Len - i).
RECURSIVE WeightedSum(_, _)
WeightedSum(seg, i) ==
    IF i > Len(seg) THEN 0
    ELSE DigitValue(seg[i]) * Pow10(Len(seg) - i) + WeightedSum(seg, i + 1)

\* The value of the k-th segment, 0 when the input has no k-th segment.
Field(k) == IF k <= SegmentCount THEN WeightedSum(Segment(k), 1) ELSE 0

\* C1: an input whose trimmed form holds only digits, '.' and '-' and whose
\* first three segments (as many as exist) are non-empty parses, and gives
\* the version of the base-10 values of the first, second and third
\* segment, 0 for a missing segment; later segments change nothing.
C1_FromParsesLeadingSegments ==
    (pc = "done" /\ OnlyVersionChars /\ LeadingNonEmpty)
        => /\ ~outcome.threw
           /\ outcome.returned = <<Version(Field(1), Field(2), Field(3))>>

\* C1 happens: a hyphen-separated input with more than three segments was
\* parsed.
C1_Witness ==
    /\ pc = "done" /\ OnlyVersionChars /\ LeadingNonEmpty
    /\ SegmentCount > 3
    /\ \E i \in SeparatorAt : TrimmedForm[i] = "-"
    /\ outcome.returned # <<>>

\* C1 happens as well on a single multi-digit segment: minor = patch = 0.
C1_WitnessMajorOnly ==
    /\ pc = "done" /\ OnlyVersionChars /\ SegmentCount = 1
    /\ outcome.returned = <<Version(10, 0, 0)>>

\* The error carries the text 'Invalid version string' and then the input
\* as it was handed in.
CarriesOriginalInput(error) ==
    /\ Len(error) = 1
    /\ Head(error[1]) = "Invalid version string: "
    /\ Tail(error[1]) = input

\* C2: an input whose trimmed form holds a character other than a digit,
\* '.' or '-', or one of whose first three segments is empty, makes
\* Version.from throw 'Invalid version string' with the untrimmed input and
\* return no Version.
C2_FromRejectsInvalid ==
    (pc = "done" /\ (~OnlyVersionChars \/ ~LeadingNonEmpty))
        => /\ outcome.threw
           /\ CarriesOriginalInput(outcome.error)
           /\ outcome.returned = <<>>

\* C2 happens: an input of spaces and tabs only was rejected, the message carrying
\* the untrimmed input.
C2_Witness ==
    /\ pc = "done" /\ TrimmedForm = <<>>
    /\ \E i, j \in 1..Len(input) : input[i] = " " /\ input[j] = "\t"
    /\ outcome.threw
    /\ CarriesOriginalInput(outcome.error)

\* C3 as claimed: an input whose trimmed form ends with a separator is
\* rejected, however many segments precede the trailing separator.
C3_TrailingSeparatorAlwaysFails ==
    (pc = "done" /\ TrimmedForm # <<>>
        /\ TrimmedForm[Len(TrimmedForm)] \in Separators)
        => outcome.threw

\* C3 as amended: an input whose trimmed form ends with a separator is
\* rejected when the empty final segment is one of the first three
\* segments, that is when the trimmed form has at most two separators.
C3_TrailingSeparatorFailsWithinThree ==
    (pc = "done" /\ TrimmedForm # <<>>
        /\ TrimmedForm[Len(TrimmedForm)] \in Separators
        /\ SegmentCount <= 3)
        => /\ outcome.threw
           /\ outcome.returned = <<>>

\* C3 happens: two digit segments and a trailing separator were rejected.
C3_Witness ==
    /\ pc = "done" /\ OnlyVersionChars
    /\ SegmentCount = 3
    /\ Segment(1) # <<>> /\ Segment(2) # <<>> /\ Segment(3) = <<>>
    /\ outcome.threw

\* C4: every Version that Version.from returns has non-negative integer
\* major, minor and patch, the inputs with '-' included.
C4_FromFieldsNonNegative ==
    (pc = "done" /\ outcome.returned # <<>>)
        => LET v == outcome.returned[1]
           IN  /\ v.major \in Nat
               /\ v.minor \in Nat
               /\ v.patch \in Nat

\* C4 happens: an input with '-' characters was parsed.
C4_Witness ==
    /\ pc = "done" /\ outcome.returned # <<>>
    /\ Cardinality({i \in 1..Len(input) : input[i] = "-"}) >= 2

-----------------------------------------------------------------------------
(* Specification SpecVersion: same, sameOrNewer and compare on every pair *)
(* of constructed versions                                                *)

Versions ==
    {Version(major, minor, patch) :
        major \in 0..MaxMajor,
        minor \in 0..MaxMinorPatch,
        patch \in 0..MaxMinorPatch}

InitVersion ==
    /\ pc = "ready"
    /\ op = ""
    /\ a \in Versions
    /\ b \in Versions
    /\ input = Unused /\ outcome = Unused
    /\ platformFlag = Unused /\ flag = Unused /\ defaultValue = Unused
    /\ map = Unused /\ predicate = Unused
    /\ ret = <<>>

VersionUnchanged ==
    UNCHANGED <<input, outcome, a, b, platformFlag, flag, defaultValue, map,
                predicate>>

CallCompare ==
    /\ pc = "ready"
    /\ pc' = "done"
    /\ op' = "compare"
    /\ ret' = <<Compare(a, b)>>
    /\ VersionUnchanged

CallSame ==
    /\ pc = "ready"
    /\ pc' = "done"
    /\ op' = "same"
    /\ ret' = <<Same(a, b)>>
    /\ VersionUnchanged

CallSameOrNewer ==
    /\ pc = "ready"
    /\ pc' = "done"
    /\ op' = "sameOrNewer"
    /\ ret' = <<SameOrNewer(a, b)>>
    /\ VersionUnchanged

NextVersion == CallCompare \/ CallSame \/ CallSameOrNewer

SpecVersion == InitVersion /\ [][NextVersion]_vars

\* The scalar of the comparison, as the claims state it.
Scalar(v) == v.major * 100 + v.minor * 10 + v.patch

\* C5: a.compare(b) is -1, 0 or 1 according as the scalar of a is less
\* than, equal to or greater than the scalar of b, and nothing else; so
\* 1.10.0 compared with 2.0.0 gives 0.
C5_CompareByScalar ==
    op = "compare"
        => /\ ret[1] \in {-1, 0, 1}
           /\ (ret[1] = -1) <=> (Scalar(a) < Scalar(b))
           /\ (ret[1] = 0) <=> (Scalar(a) = Scalar(b))
           /\ (ret[1] = 1) <=> (Scalar(a) > Scalar(b))
           /\ (a = Version(1, 10, 0) /\ b = Version(2, 0, 0)) => ret[1] = 0

\* C5 happens: 1.10.0 was compared with 2.0.0 and the result was 0.
C5_Witness ==
    /\ op = "compare"
    /\ a = Version(1, 10, 0) /\ b = Version(2, 0, 0)
    /\ ret = <<0>>

\* C6 as claimed: a.same(b) is true exactly when b is an exact match of a,
\* that is when major, minor and patch all agree.
C6_SameIsExactMatch ==
    op = "same"
        => (ret[1] <=> (/\ b.major = a.major
                        /\ b.minor = a.minor
                        /\ b.patch = a.patch))

\* Both versions have minor and patch of at most 9.
SingleDigitMinorPatch ==
    /\ a.minor <= 9 /\ a.patch <= 9
    /\ b.minor <= 9 /\ b.patch <= 9

\* The three-way lexicographic comparison of (major, minor, patch).
Lexicographic(v, w) ==
    IF v.major # w.major THEN (IF v.major < w.major THEN -1 ELSE 1)
    ELSE IF v.minor # w.minor THEN (IF v.minor < w.minor THEN -1 ELSE 1)
    ELSE IF v.patch # w.patch THEN (IF v.patch < w.patch THEN -1 ELSE 1)
    ELSE 0

\* C10: for versions whose minor and patch are at most 9, compare is the
\* lexicographic comparison of (major, minor, patch), same holds only for
\* identical triples and sameOrNewer holds exactly when a is
\* lexicographically greater than or equal to b.
C10_SingleDigitIsLexicographic ==
    SingleDigitMinorPatch
        => /\ op = "compare" => ret[1] = Lexicographic(a, b)
           /\ op = "same" => (ret[1] <=> a = b)
           /\ op = "sameOrNewer" => (ret[1] <=> Lexicographic(a, b) >= 0)

\* C10 happens: 2.0.0 was found the same as or newer than 1.9.9.
C10_Witness ==
    /\ op = "sameOrNewer"
    /\ a = Version(2, 0, 0) /\ b = Version(1, 9, 9)
    /\ ret = <<TRUE>>

-----------------------------------------------------------------------------
(* JavaScript values of the types a flag may have *)

JSString(s) == [type |-> "string", str |-> s, num |-> 0, bool |-> FALSE]
JSNumber(n) == [type |-> "number", str |-> <<>>, num |-> n, bool |-> FALSE]
JSBoolean(x) == [type |-> "boolean", str |-> <<>>, num |-> 0, bool |-> x]
Undefined == [type |-> "undefined", str |-> <<>>, num |-> 0, bool |-> FALSE]
Null == [type |-> "null", str |-> <<>>, num |-> 0, bool |-> FALSE]

\* ToBoolean, as `if (x)` and `x && ...` apply it.
Truthy(v) ==
    CASE v.type = "string"  -> Len(v.str) > 0
      [] v.type = "number"  -> v.num # 0
      [] v.type = "boolean" -> v.bool
      [] OTHER              -> FALSE

\* `v.length > 0` on a truthy value: a string has its length, a number or
\* a boolean has no length property, and undefined > 0 is false.
LengthAboveZero(v) == v.type = "string" /\ Len(v.str) > 0

-----------------------------------------------------------------------------
(* class CommandLineUtils *)

IOS_FLAG == <<"i", "o", "s">>
ANDROID_FLAG == <<"a", "n", "d", "r", "o", "i", "d">>

\* platformFlagIsIOS(input)
PlatformFlagIsIOSCaseSensitive(in) ==
    IF Truthy(in) THEN in.str = IOS_FLAG ELSE FALSE

PlatformFlagIsIOS(in) ==
    IF Truthy(in) THEN ToLowerCase(in.str) = IOS_FLAG ELSE FALSE

\* platformFlagIsAndroid(input)
PlatformFlagIsAndroid(in) ==
    IF Truthy(in) THEN ToLowerCase(in.str) = ANDROID_FLAG ELSE FALSE

\* platformFlagIsValid(platformFlag)
PlatformFlagIsValid(pf) == PlatformFlagIsIOS(pf) \/ PlatformFlagIsAndroid(pf)

\* resolveFlag(flag, defaultValue): `flag as string` converts nothing, so
\* resolvedFlag is the flag itself.
ResolveFlag(f, dflt) ==
    LET resolvedFlag == f
    IN  IF Truthy(resolvedFlag) /\ LengthAboveZero(resolvedFlag)
        THEN resolvedFlag
        ELSE JSString(dflt)

-----------------------------------------------------------------------------
(* Specification SpecFlags: the four CommandLineUtils helpers, each called *)
(* once, in any order, on the same arguments.  ret holds one slot per      *)
(* helper: <<>> until it was called, <<value>> after.                      *)

UpperCaseChar(c) ==
    LET at == {i \in 1..Len(LowerCaseLetters) : LowerCaseLetters[i] = c}
    IN  IF at = {} THEN c ELSE UpperCaseLetters[Min(at)]

\* Every way of writing a word in upper and lower case.
CaseVariants(w) ==
    {[i \in 1..Len(w) |-> IF i \in U THEN UpperCaseChar(w[i]) ELSE w[i]] :
        U \in SUBSET (1..Len(w))}

PlatformWords ==
    {<<>>, IOS_FLAG, ANDROID_FLAG,
     <<"i", "o">>, <<"i", "o", "s", "a">>, <<" ", "i", "o", "s">>,
     <<"w", "i", "n", "d", "o", "w", "s">>}

PlatformFlags ==
    {JSString(v) : v \in UNION {CaseVariants(w) : w \in PlatformWords}}
        \cup {Undefined, Null}

FlagValues ==
    {JSString(<<>>), JSString(<<"c", "u", "s", "t", "o", "m">>),
     JSString(<<"0">>), JSString(<<" ">>),
     JSNumber(0), JSNumber(5), JSNumber(10),
     JSBoolean(TRUE), JSBoolean(FALSE), Undefined, Null}

DefaultValues == {<<"d", "e", "f", "a", "u", "l", "t">>, <<>>}

NoneCalled == [isIOS |-> <<>>, isAndroid |-> <<>>, isValid |-> <<>>,
               resolved |-> <<>>]

InitFlags ==
    /\ pc = "ready"
    /\ op = ""
    /\ platformFlag \in PlatformFlags
    /\ flag \in FlagValues
    /\ defaultValue \in DefaultValues
    /\ input = Unused /\ outcome = Unused
    /\ a = Unused /\ b = Unused
    /\ map = Unused /\ predicate = Unused
    /\ ret = NoneCalled

\* One helper returned: its slot is filled, and pc is "done" once all are.
Record(slot, method, value) ==
    /\ pc = "ready"
    /\ ret[slot] = <<>>
    /\ ret' = [ret EXCEPT ![slot] = <<value>>]
    /\ op' = method
    /\ pc' = IF \A t \in DOMAIN ret : ret'[t] # <<>> THEN "done" ELSE "ready"
    /\ UNCHANGED <<input, outcome, a, b, platformFlag, flag, defaultValue,
                   map, predicate>>

CallPlatformFlagIsIOS ==
    Record("isIOS", "platformFlagIsIOS", PlatformFlagIsIOS(platformFlag))

CallPlatformFlagIsAndroid ==
    Record("isAndroid", "platformFlagIsAndroid",
           PlatformFlagIsAndroid(platformFlag))

CallPlatformFlagIsValid ==
    Record("isValid", "platformFlagIsValid", PlatformFlagIsValid(platformFlag))

CallResolveFlag ==
    Record("resolved", "resolveFlag", ResolveFlag(flag, defaultValue))

NextFlags ==
    \/ CallPlatformFlagIsIOS
    \/ CallPlatformFlagIsAndroid
    \/ CallPlatformFlagIsValid
    \/ CallResolveFlag

SpecFlags == InitFlags /\ [][NextFlags]_vars

\* String(n) for a natural number.
RECURSIVE NatToString(_)
NatToString(n) ==
    LET digit == CHOOSE c \in Digits : DigitValue(c) = n % 10
    IN  IF n < 10 THEN <<digit>> ELSE NatToString(n \div 10) \o <<digit>>

\* The flag coerced to a string, String(flag).
CoercedToString(v) ==
    CASE v.type = "string"    -> v.str
      [] v.type = "number"    -> NatToString(v.num)
      [] v.type = "boolean"   -> IF v.bool THEN <<"t", "r", "u", "e">>
                                           ELSE <<"f", "a", "l", "s", "e">>
      [] v.type = "undefined" -> <<>>
      [] v.type = "null"      -> <<>>

\* C7 as claimed: for a flag of any type (string, number, boolean,
\* null/undefined) resolveFlag returns the flag coerced to a string when
\* that string is non-empty, and defaultValue otherwise; an absent flag has
\* no string.
C7_ResolveFlagCoerces ==
    ret.resolved # <<>>
        => ret.resolved[1] =
               IF CoercedToString(flag) # <<>>
               THEN JSString(CoercedToString(flag))
               ELSE JSString(defaultValue)

\* The platform flag is a string that reads as the word, whatever the case
\* of its letters.
ReadsAs(word) ==
    /\ platformFlag.type = "string"
    /\ Len(platformFlag.str) = Len(word)
    /\ \A i \in 1..Len(word) :
           platformFlag.str[i] \in {word[i], UpperCaseChar(word[i])}

\* C9: platformFlagIsValid is true exactly when the lower-cased input is
\* "ios" or "android", that is exactly when platformFlagIsIOS or
\* platformFlagIsAndroid is true; an empty or absent input gives false for
\* all three helpers, and no input makes both platformFlagIsIOS and
\* platformFlagIsAndroid true.
C9_PlatformFlagIsValid ==
    LET called(slot) == ret[slot] # <<>>
        empty == platformFlag \in {JSString(<<>>), Undefined, Null}
    IN  /\ called("isValid")
            => (ret.isValid[1] <=> (ReadsAs(IOS_FLAG) \/ ReadsAs(ANDROID_FLAG)))
        /\ called("isIOS") => (ret.isIOS[1] <=> ReadsAs(IOS_FLAG))
        /\ called("isAndroid") => (ret.isAndroid[1] <=> ReadsAs(ANDROID_FLAG))
        /\ (called("isValid") /\ called("isIOS") /\ called("isAndroid"))
            => (ret.isValid[1] <=> (ret.isIOS[1] \/ ret.isAndroid[1]))
        /\ (called("isIOS") /\ called("isAndroid"))
            => ~(ret.isIOS[1] /\ ret.isAndroid[1])
        /\ empty => \A slot \in {"isValid", "isIOS", "isAndroid"} :
                        called(slot) => ret[slot] = <<FALSE>>

\* C9 happens: all three helpers were called on a mixed-case "android" and
\* platformFlagIsValid said yes.
C9_Witness ==
    /\ pc = "done"
    /\ ReadsAs(ANDROID_FLAG)
    /\ platformFlag.str # ANDROID_FLAG
    /\ ret.isValid = <<TRUE>> /\ ret.isAndroid = <<TRUE>>
    /\ ret.isIOS = <<FALSE>>

-----------------------------------------------------------------------------
(* class MapUtils *)

\* A Map is the sequence of its entries <<key, value>> in insertion order,
\* no key twice; the map argument may also be null.
NullMap == [isNull |-> TRUE, entries |-> <<>>]
MapOf(entries) == [isNull |-> FALSE, entries |-> entries]

\* Map.prototype.set on the entries: a key already present keeps its place
\* and takes the new value, a new key goes to the end.
MapSetInFront(entries, key, value) ==
    LET at == {i \in 1..Len(entries) : entries[i][1] = key}
    IN  IF at = {} THEN <<<<key, value>>>> \o entries
        ELSE [entries EXCEPT ![Min(at)] = <<key, value>>]

MapSet(entries, key, value) ==
    LET at == {i \in 1..Len(entries) : entries[i][1] = key}
    IN  IF at = {} THEN Append(entries, <<key, value>>)
        ELSE [entries EXCEPT ![Min(at)] = <<key, value>>]

\* The loop `for (const [key, value] of entries)` from entry i on, aMap
\* being what was collected so far.
RECURSIVE FilterLoop(_, _, _, _)
FilterLoop(entries, i, aMap, pred) ==
    IF i > Len(entries) THEN aMap
    ELSE LET key   == entries[i][1]
             value == entries[i][2]
         IN  FilterLoop(entries, i + 1,
                        IF pred[key, value] = TRUE
                        THEN MapSet(aMap, key, value)
                        ELSE aMap,
                        pred)

\* MapUtils.filter(map, predicate); the result is the new Map's entries.
Filter(m, pred) ==
    LET aMap == <<>>
    IN  IF m.isNull THEN aMap
        ELSE FilterLoop(m.entries, 1, aMap, pred)

-----------------------------------------------------------------------------
(* Specification SpecFilter: MapUtils.filter on every map of up to MaxKeys *)
(* entries and every predicate over its entries                            *)

Keys == 1..MaxKeys
Values == {"x", "y"}

Maps ==
    {MapOf(e) : e \in
        {e \in UNION {[1..n -> Keys \X Values] : n \in 0..MaxKeys} :
            \A i, j \in 1..Len(e) : e[i][1] = e[j][1] => i = j}}
        \cup {NullMap}

Predicates == [Keys \X Values -> BOOLEAN]

InitFilter ==
    /\ pc = "ready"
    /\ op = ""
    /\ map \in Maps
    /\ predicate \in Predicates
    /\ input = Unused /\ outcome = Unused
    /\ a = Unused /\ b = Unused
    /\ platformFlag = Unused /\ flag = Unused /\ defaultValue = Unused
    /\ ret = <<>>

CallFilter ==
    /\ pc = "ready"
    /\ pc' = "done"
    /\ op' = "filter"
    /\ ret' = <<Filter(map, predicate)>>
    /\ UNCHANGED <<input, outcome, a, b, platformFlag, flag, defaultValue,
                   map, predicate>>

NextFilter == CallFilter

SpecFilter == InitFilter /\ [][NextFilter]_vars

\* Where an entry stands in the map argument.
PlaceIn(entries, entry) == CHOOSE i \in 1..Len(entries) : entries[i] = entry

\* C8: MapUtils.filter(m, p) returns a mapping that holds exactly the
\* entries (k, v) of m for which p(k, v) is true, in the same relative
\* order as in m; a null m gives an empty mapping; the call always returns.
C8_FilterKeepsExactlyMatching ==
    pc = "done"
        => /\ Len(ret) = 1
           /\ LET r == ret[1]
                  m == map.entries
              IN  /\ map.isNull => r = <<>>
                  /\ \A i \in 1..Len(r) :
                         /\ \E j \in 1..Len(m) : m[j] = r[i]
                         /\ predicate[r[i][1], r[i][2]]
                  /\ \A j \in 1..Len(m) :
                         predicate[m[j][1], m[j][2]]
                             => \E i \in 1..Len(r) : r[i] = m[j]
                  /\ \A i, j \in 1..Len(r) : r[i][1] = r[j][1] => i = j
                  /\ \A i, j \in 1..Len(r) :
                         i < j => PlaceIn(m, r[i]) < PlaceIn(m, r[j])

\* C8 happens: of three entries the first and the last were kept and the
\* middle one was dropped.
C8_Witness ==
    /\ pc = "done"
    /\ ~map.isNull /\ Len(map.entries) = 3
    /\ ret = <<<<map.entries[1], map.entries[3]>>>>
    /\ map.entries[1][1] > map.entries[3][1]

=============================================================================
